---- MODULE Spec2Model ----
(***************************************************************************)
(* Model of the singleton variants of creationalDesignPatterns/sigleton.py *)
(* as interleaved threads.  Every read or write of a class attribute, every *)
(* lock operation and every object allocation is one atomic step of the    *)
(* calling thread; a thread switch may happen between any two of them.     *)
(***************************************************************************)
EXTENDS Integers, FiniteSets, Sequences, TLC

\* ---------------------------------------------------------------- bounds
NThreads == 3
MaxCalls == 3
MaxFail == 1
MaxAdds == 2
MaxBurgers == 2
MaxAppends == 3
MaxOrders == 2

Threads == 1..NThreads

\* Python's None; objects are identified by positive integers (id()).
None == 0

Classes == {"DoubleChecked", "Synchronized", "BillPugh", "Eager", "Lazy"}
LockClasses == {"DoubleChecked", "Synchronized"}

VARIABLES
    instance,       \* instance[c]: the class attribute _instance / INSTANCE of class c
    locked,         \* locked[c]: whether the class-level threading.Lock _lock is held
    pc,             \* pc[t]: position of thread t ("idle" between calls)
    obj,            \* obj[t]: the object thread t has allocated and not yet stored
    first,          \* first[t]: what t's current/last call read at its first check
    acq,            \* acq[t]: lock acquisitions made by t's current/last call
    outcome,        \* outcome[t]: how t's last completed call ended
    returned,       \* returned[c]: every value a getInstance() of class c has returned
    constructions,  \* constructions[c]: executions of the guarded assignment of class c
    ncalls,         \* calls started so far (bounded by MaxCalls)
    failures,       \* failed allocations so far (bounded by MaxFail)
    nextObj,        \* objects allocated so far; the next one gets identity nextObj + 1
    overlapped,     \* whether two LazySingleton calls were ever in progress at once
    lists,          \* the heap of Python list objects: lists[i] is the content of list i
    builders,       \* the BurgerBuilder objects: [size, ingredients (a list's identity)]
    burgers,        \* the Burger objects: [size, ingredients (a list's identity)]
    added,          \* added[b]: the add_* calls made on builder b, in call order
    built,          \* built[i]: builder, size and add_* calls so far when burger i was built
    raised,         \* the exception of the last BurgerBuilder(size) call, or "none"
    obuilders,      \* the OrderBuilder objects: [order_id, restaurant_name, additioal (a list)]
    orders,         \* the Order objects, their addon being a list's identity
    ordered         \* ordered[i]: the field values of order i when build_order() returned

\* The state of the singleton classes and of the threads calling them.
threadState == <<instance, locked, pc, obj, first, acq, outcome, returned,
                 constructions, ncalls, failures, nextObj, overlapped>>

\* The state of builder.py: the builders, their products and the lists they hold.
burgerState == <<builders, burgers, added, built, raised>>
orderState == <<obuilders, orders, ordered>>
builderState == <<lists, burgerState, orderState>>

vars == <<threadState, builderState>>

\* What the steps of the eager, lock-based and Bill Pugh singletons never touch.
others == <<overlapped, builderState>>

shared == <<instance, locked, returned, constructions>>

Init ==
    /\ instance = [c \in Classes |-> None]
    /\ locked = [c \in LockClasses |-> FALSE]
    /\ pc = [t \in Threads |-> "idle"]
    /\ obj = [t \in Threads |-> None]
    /\ first = [t \in Threads |-> None]
    /\ acq = [t \in Threads |-> 0]
    /\ outcome = [t \in Threads |-> "none"]
    /\ returned = [c \in Classes |-> {}]
    /\ constructions = [c \in Classes |-> 0]
    /\ ncalls = 0
    /\ failures = 0
    /\ nextObj = 0
    /\ overlapped = FALSE
    /\ lists = <<>>
    /\ builders = <<>>
    /\ burgers = <<>>
    /\ added = <<>>
    /\ built = <<>>
    /\ raised = "none"
    /\ obuilders = <<>>
    /\ orders = <<>>
    /\ ordered = <<>>

\* A thread enters a call: its per-call locals are fresh.
Enter(t, label) ==
    /\ pc[t] = "idle"
    /\ ncalls < MaxCalls
    /\ ncalls' = ncalls + 1
    /\ pc' = [pc EXCEPT ![t] = label]
    /\ first' = [first EXCEPT ![t] = None]
    /\ acq' = [acq EXCEPT ![t] = 0]
    /\ outcome' = [outcome EXCEPT ![t] = "none"]

\* A call ends by raising: the exception reaches the caller.
Raise(t, exc) ==
    /\ pc' = [pc EXCEPT ![t] = "idle"]
    /\ obj' = [obj EXCEPT ![t] = None]
    /\ outcome' = [outcome EXCEPT ![t] = exc]

\* object.__new__(cls): a fresh object, or MemoryError.
Allocate(t, okLabel, failLabel) ==
    \/ /\ nextObj' = nextObj + 1
       /\ obj' = [obj EXCEPT ![t] = nextObj + 1]
       /\ pc' = [pc EXCEPT ![t] = okLabel]
       /\ UNCHANGED failures
    \/ /\ failures < MaxFail
       /\ failures' = failures + 1
       /\ pc' = [pc EXCEPT ![t] = failLabel]
       /\ UNCHANGED <<nextObj, obj>>

\* ------------------------------------------------- DoubleCheckedSingleton
DC == "DoubleChecked"

DCL_Call(t) ==
    /\ Enter(t, "dcl_check1")
    /\ UNCHANGED <<shared, obj, failures, nextObj>>
    /\ UNCHANGED others

\* Mutant: the first check always sends the caller to the lock.
DCL_Check1_AlwaysLock(t) ==
    /\ pc[t] = "dcl_check1"
    /\ first' = [first EXCEPT ![t] = instance[DC]]
    /\ pc' = [pc EXCEPT ![t] = "dcl_acquire"]
    /\ UNCHANGED <<shared, obj, acq, outcome, ncalls, failures, nextObj>>
    /\ UNCHANGED others

\* if DoubleCheckedSingleton._instance is None:   (first check, no lock)
DCL_Check1(t) ==
    /\ pc[t] = "dcl_check1"
    /\ first' = [first EXCEPT ![t] = instance[DC]]
    /\ pc' = [pc EXCEPT ![t] =
                IF instance[DC] = None THEN "dcl_acquire" ELSE "dcl_return"]
    /\ UNCHANGED <<shared, obj, acq, outcome, ncalls, failures, nextObj>>
    /\ UNCHANGED others

\* Mutant: the lock is taken without waiting for it to be free.
DCL_Acquire_NoWait(t) ==
    /\ pc[t] = "dcl_acquire"
    /\ locked' = [locked EXCEPT ![DC] = TRUE]
    /\ acq' = [acq EXCEPT ![t] = acq[t] + 1]
    /\ pc' = [pc EXCEPT ![t] = "dcl_check2"]
    /\ UNCHANGED <<instance, returned, constructions, obj, first, outcome,
                   ncalls, failures, nextObj>>
    /\ UNCHANGED others

\* with DoubleCheckedSingleton._lock:   (__enter__: blocks until the lock is free)
DCL_Acquire(t) ==
    /\ pc[t] = "dcl_acquire"
    /\ ~locked[DC]
    /\ locked' = [locked EXCEPT ![DC] = TRUE]
    /\ acq' = [acq EXCEPT ![t] = acq[t] + 1]
    /\ pc' = [pc EXCEPT ![t] = "dcl_check2"]
    /\ UNCHANGED <<instance, returned, constructions, obj, first, outcome,
                   ncalls, failures, nextObj>>
    /\ UNCHANGED others

\* Mutant: no second check, the lock holder always constructs.
DCL_Check2_NoRecheck(t) ==
    /\ pc[t] = "dcl_check2"
    /\ pc' = [pc EXCEPT ![t] = "dcl_new"]
    /\ UNCHANGED <<shared, obj, first, acq, outcome, ncalls, failures, nextObj>>
    /\ UNCHANGED others

\* if DoubleCheckedSingleton._instance is None:   (second check, under the lock)
DCL_Check2(t) ==
    /\ pc[t] = "dcl_check2"
    /\ pc' = [pc EXCEPT ![t] =
                IF instance[DC] = None THEN "dcl_new" ELSE "dcl_release"]
    /\ UNCHANGED <<shared, obj, first, acq, outcome, ncalls, failures, nextObj>>
    /\ UNCHANGED others

\* DoubleCheckedSingleton.__new__(DoubleCheckedSingleton)
DCL_New(t) ==
    /\ pc[t] = "dcl_new"
    /\ Allocate(t, "dcl_store", "dcl_unwind")
    /\ UNCHANGED <<shared, first, acq, outcome, ncalls>>
    /\ UNCHANGED others

\* DoubleCheckedSingleton._instance = <the new object>
DCL_Store(t) ==
    /\ pc[t] = "dcl_store"
    /\ instance' = [instance EXCEPT ![DC] = obj[t]]
    /\ constructions' = [constructions EXCEPT ![DC] = constructions[DC] + 1]
    /\ obj' = [obj EXCEPT ![t] = None]
    /\ pc' = [pc EXCEPT ![t] = "dcl_release"]
    /\ UNCHANGED <<locked, returned, first, acq, outcome, ncalls, failures, nextObj>>
    /\ UNCHANGED others

\* Mutant: the block is left on the normal path with the lock still held.
DCL_Release_Forgets(t) ==
    /\ pc[t] = "dcl_release"
    /\ pc' = [pc EXCEPT ![t] = "dcl_return"]
    /\ UNCHANGED <<shared, obj, first, acq, outcome, ncalls, failures, nextObj>>
    /\ UNCHANGED others

\* end of the with block (__exit__ on the normal path)
DCL_Release(t) ==
    /\ pc[t] = "dcl_release"
    /\ locked' = [locked EXCEPT ![DC] = FALSE]
    /\ pc' = [pc EXCEPT ![t] = "dcl_return"]
    /\ UNCHANGED <<instance, returned, constructions, obj, first, acq, outcome,
                   ncalls, failures, nextObj>>
    /\ UNCHANGED others

\* Mutant: the exception leaves the block without releasing the lock.
DCL_Unwind_NoRelease(t) ==
    /\ pc[t] = "dcl_unwind"
    /\ Raise(t, "ConstructionFailed")
    /\ UNCHANGED <<shared, first, acq, ncalls, failures, nextObj>>
    /\ UNCHANGED others

\* __exit__ on the exception path: the lock is released, the exception propagates
DCL_Unwind(t) ==
    /\ pc[t] = "dcl_unwind"
    /\ locked' = [locked EXCEPT ![DC] = FALSE]
    /\ Raise(t, "ConstructionFailed")
    /\ UNCHANGED <<instance, returned, constructions, first, acq, ncalls,
                   failures, nextObj>>
    /\ UNCHANGED others

\* return DoubleCheckedSingleton._instance   (reads the attribute again)
DCL_Return(t) ==
    /\ pc[t] = "dcl_return"
    /\ returned' = [returned EXCEPT ![DC] = returned[DC] \cup {instance[DC]}]
    /\ outcome' = [outcome EXCEPT ![t] = "returned"]
    /\ pc' = [pc EXCEPT ![t] = "idle"]
    /\ UNCHANGED <<instance, locked, constructions, obj, first, acq, ncalls,
                   failures, nextObj>>
    /\ UNCHANGED others

\* DoubleCheckedSingleton(): type.__call__ allocates the object, then runs __init__
DCL_Construct(t) ==
    /\ Enter(t, "dcl_init")
    /\ nextObj' = nextObj + 1
    /\ obj' = [obj EXCEPT ![t] = nextObj + 1]
    /\ UNCHANGED <<shared, failures>>
    /\ UNCHANGED others

\* Mutant: a constructor that registers itself when no instance exists yet.
DCL_Init_Registers(t) ==
    /\ pc[t] = "dcl_init"
    /\ IF instance[DC] = None
         THEN /\ instance' = [instance EXCEPT ![DC] = obj[t]]
              /\ pc' = [pc EXCEPT ![t] = "idle"]
              /\ obj' = [obj EXCEPT ![t] = None]
              /\ outcome' = [outcome EXCEPT ![t] = "constructed"]
         ELSE /\ Raise(t, "UseGetInstance")
              /\ UNCHANGED instance
    /\ UNCHANGED <<locked, returned, constructions, first, acq, ncalls,
                   failures, nextObj>>
    /\ UNCHANGED others

\* def __init__(self): raise Exception("Use getInstance()")
DCL_Init(t) ==
    /\ pc[t] = "dcl_init"
    /\ Raise(t, "UseGetInstance")
    /\ UNCHANGED <<shared, first, acq, ncalls, failures, nextObj>>
    /\ UNCHANGED others

\* t is inside the with block of DoubleCheckedSingleton.getInstance()
DCL_InWith(t) ==
    pc[t] \in {"dcl_check2", "dcl_new", "dcl_store", "dcl_release", "dcl_unwind"}

DCL_Step(t) ==
    \/ DCL_Check1(t)
    \/ DCL_Acquire(t)
    \/ DCL_Check2(t)
    \/ DCL_New(t)
    \/ DCL_Store(t)
    \/ DCL_Release(t)
    \/ DCL_Unwind(t)
    \/ DCL_Return(t)
    \/ DCL_Init(t)

Next ==
    \E t \in Threads :
        \/ DCL_Call(t)
        \/ DCL_Construct(t)
        \/ DCL_Check1(t)
        \/ DCL_Acquire(t)
        \/ DCL_Check2(t)
        \/ DCL_New(t)
        \/ DCL_Store(t)
        \/ DCL_Release(t)
        \/ DCL_Unwind(t)
        \/ DCL_Return(t)
        \/ DCL_Init(t)

Spec == Init /\ [][Next]_vars

\* Fair scheduling: a thread that can take the next step of its call takes it.
FairSpec == Spec /\ \A t \in Threads : WF_vars(DCL_Step(t))

\* -------------------------------------------------- SynchronizedSingleton
SY == "Synchronized"

Sync_Call(t) ==
    /\ Enter(t, "sync_acquire")
    /\ UNCHANGED <<shared, obj, failures, nextObj>>
    /\ UNCHANGED others

\* Mutant: the lock is taken without waiting for it to be free.
Sync_Acquire_NoWait(t) ==
    /\ pc[t] = "sync_acquire"
    /\ locked' = [locked EXCEPT ![SY] = TRUE]
    /\ acq' = [acq EXCEPT ![t] = acq[t] + 1]
    /\ pc' = [pc EXCEPT ![t] = "sync_check"]
    /\ UNCHANGED <<instance, returned, constructions, obj, first, outcome,
                   ncalls, failures, nextObj>>
    /\ UNCHANGED others

\* with SynchronizedSingleton._lock:   (__enter__: blocks until the lock is free)
Sync_Acquire(t) ==
    /\ pc[t] = "sync_acquire"
    /\ ~locked[SY]
    /\ locked' = [locked EXCEPT ![SY] = TRUE]
    /\ acq' = [acq EXCEPT ![t] = acq[t] + 1]
    /\ pc' = [pc EXCEPT ![t] = "sync_check"]
    /\ UNCHANGED <<instance, returned, constructions, obj, first, outcome,
                   ncalls, failures, nextObj>>
    /\ UNCHANGED others

\* if SynchronizedSingleton._instance is None:   (under the lock)
Sync_Check(t) ==
    /\ pc[t] = "sync_check"
    /\ first' = [first EXCEPT ![t] = instance[SY]]
    /\ pc' = [pc EXCEPT ![t] =
                IF instance[SY] = None THEN "sync_new" ELSE "sync_release"]
    /\ UNCHANGED <<shared, obj, acq, outcome, ncalls, failures, nextObj>>
    /\ UNCHANGED others

\* SynchronizedSingleton.__new__(SynchronizedSingleton)
Sync_New(t) ==
    /\ pc[t] = "sync_new"
    /\ Allocate(t, "sync_store", "sync_unwind")
    /\ UNCHANGED <<shared, first, acq, outcome, ncalls>>
    /\ UNCHANGED others

\* SynchronizedSingleton._instance = <the new object>
Sync_Store(t) ==
    /\ pc[t] = "sync_store"
    /\ instance' = [instance EXCEPT ![SY] = obj[t]]
    /\ constructions' = [constructions EXCEPT ![SY] = constructions[SY] + 1]
    /\ obj' = [obj EXCEPT ![t] = None]
    /\ pc' = [pc EXCEPT ![t] = "sync_release"]
    /\ UNCHANGED <<locked, returned, first, acq, outcome, ncalls, failures, nextObj>>
    /\ UNCHANGED others

\* end of the with block (__exit__ on the normal path)
Sync_Release(t) ==
    /\ pc[t] = "sync_release"
    /\ locked' = [locked EXCEPT ![SY] = FALSE]
    /\ pc' = [pc EXCEPT ![t] = "sync_return"]
    /\ UNCHANGED <<instance, returned, constructions, obj, first, acq, outcome,
                   ncalls, failures, nextObj>>
    /\ UNCHANGED others

\* __exit__ on the exception path: the lock is released, the exception propagates
Sync_Unwind(t) ==
    /\ pc[t] = "sync_unwind"
    /\ locked' = [locked EXCEPT ![SY] = FALSE]
    /\ Raise(t, "ConstructionFailed")
    /\ UNCHANGED <<instance, returned, constructions, first, acq, ncalls,
                   failures, nextObj>>
    /\ UNCHANGED others

\* return SynchronizedSingleton._instance   (after the with block)
Sync_Return(t) ==
    /\ pc[t] = "sync_return"
    /\ returned' = [returned EXCEPT ![SY] = returned[SY] \cup {instance[SY]}]
    /\ outcome' = [outcome EXCEPT ![t] = "returned"]
    /\ pc' = [pc EXCEPT ![t] = "idle"]
    /\ UNCHANGED <<instance, locked, constructions, obj, first, acq, ncalls,
                   failures, nextObj>>
    /\ UNCHANGED others

\* SynchronizedSingleton(): type.__call__ allocates the object, then runs __init__
Sync_Construct(t) ==
    /\ Enter(t, "sync_init")
    /\ nextObj' = nextObj + 1
    /\ obj' = [obj EXCEPT ![t] = nextObj + 1]
    /\ UNCHANGED <<shared, failures>>
    /\ UNCHANGED others

\* def __init__(self): raise Exception("Use getInstance()")
Sync_Init(t) ==
    /\ pc[t] = "sync_init"
    /\ Raise(t, "UseGetInstance")
    /\ UNCHANGED <<shared, first, acq, ncalls, failures, nextObj>>
    /\ UNCHANGED others

\* t is inside the with block of SynchronizedSingleton.getInstance()
Sync_InWith(t) ==
    pc[t] \in {"sync_check", "sync_new", "sync_store", "sync_release", "sync_unwind"}

NextSynchronized ==
    \E t \in Threads :
        \/ Sync_Call(t)
        \/ Sync_Construct(t)
        \/ Sync_Acquire(t)
        \/ Sync_Check(t)
        \/ Sync_New(t)
        \/ Sync_Store(t)
        \/ Sync_Release(t)
        \/ Sync_Unwind(t)
        \/ Sync_Return(t)
        \/ Sync_Init(t)

SpecSynchronized == Init /\ [][NextSynchronized]_vars

\* ------------------------------------------------------ BillPughSingleton
BP == "BillPugh"

BP_Call(t) ==
    /\ Enter(t, "bp_check")
    /\ UNCHANGED <<shared, obj, failures, nextObj>>
    /\ UNCHANGED others

\* if BillPughSingleton._SingletonHelper.INSTANCE is None:   (no lock)
BP_Check(t) ==
    /\ pc[t] = "bp_check"
    /\ first' = [first EXCEPT ![t] = instance[BP]]
    /\ pc' = [pc EXCEPT ![t] =
                IF instance[BP] = None THEN "bp_new" ELSE "bp_return"]
    /\ UNCHANGED <<shared, obj, acq, outcome, ncalls, failures, nextObj>>
    /\ UNCHANGED others

\* BillPughSingleton.__new__(BillPughSingleton)
BP_New(t) ==
    /\ pc[t] = "bp_new"
    /\ Allocate(t, "bp_store", "bp_fail")
    /\ UNCHANGED <<shared, first, acq, outcome, ncalls>>
    /\ UNCHANGED others

\* the MemoryError of __new__ propagates out of getInstance()
BP_Fail(t) ==
    /\ pc[t] = "bp_fail"
    /\ Raise(t, "ConstructionFailed")
    /\ UNCHANGED <<shared, first, acq, ncalls, failures, nextObj>>
    /\ UNCHANGED others

\* BillPughSingleton._SingletonHelper.INSTANCE = <the new object>
BP_Store(t) ==
    /\ pc[t] = "bp_store"
    /\ instance' = [instance EXCEPT ![BP] = obj[t]]
    /\ constructions' = [constructions EXCEPT ![BP] = constructions[BP] + 1]
    /\ obj' = [obj EXCEPT ![t] = None]
    /\ pc' = [pc EXCEPT ![t] = "bp_return"]
    /\ UNCHANGED <<locked, returned, first, acq, outcome, ncalls, failures, nextObj>>
    /\ UNCHANGED others

\* return BillPughSingleton._SingletonHelper.INSTANCE
BP_Return(t) ==
    /\ pc[t] = "bp_return"
    /\ returned' = [returned EXCEPT ![BP] = returned[BP] \cup {instance[BP]}]
    /\ outcome' = [outcome EXCEPT ![t] = "returned"]
    /\ pc' = [pc EXCEPT ![t] = "idle"]
    /\ UNCHANGED <<instance, locked, constructions, obj, first, acq, ncalls,
                   failures, nextObj>>
    /\ UNCHANGED others

\* BillPughSingleton(): type.__call__ allocates the object, then runs __init__
BP_Construct(t) ==
    /\ Enter(t, "bp_init")
    /\ nextObj' = nextObj + 1
    /\ obj' = [obj EXCEPT ![t] = nextObj + 1]
    /\ UNCHANGED <<shared, failures>>
    /\ UNCHANGED others

\* def __init__(self): raise Exception("Use getInstance()")
BP_Init(t) ==
    /\ pc[t] = "bp_init"
    /\ Raise(t, "UseGetInstance")
    /\ UNCHANGED <<shared, first, acq, ncalls, failures, nextObj>>
    /\ UNCHANGED others

NextBillPugh ==
    \E t \in Threads :
        \/ BP_Call(t)
        \/ BP_Construct(t)
        \/ BP_Check(t)
        \/ BP_New(t)
        \/ BP_Fail(t)
        \/ BP_Store(t)
        \/ BP_Return(t)
        \/ BP_Init(t)

SpecBillPugh == Init /\ [][NextBillPugh]_vars

\* --------------------------------------------------------- EagerSingleton
\* __instance is None after the class body has run: the assignment that would
\* create the instance at load time is commented out in the source.
EG == "Eager"

\* EagerSingleton(): type.__call__ allocates the object, then runs __init__
Eager_Construct(t) ==
    /\ Enter(t, "eager_init_check")
    /\ nextObj' = nextObj + 1
    /\ obj' = [obj EXCEPT ![t] = nextObj + 1]
    /\ UNCHANGED <<shared, failures>>
    /\ UNCHANGED others

\* if EagerSingleton.__instance is not None: raise Exception(...)
Eager_InitCheck(t) ==
    /\ pc[t] = "eager_init_check"
    /\ first' = [first EXCEPT ![t] = instance[EG]]
    /\ IF instance[EG] # None
         THEN Raise(t, "IsSingleton")
         ELSE /\ pc' = [pc EXCEPT ![t] = "eager_init_store"]
              /\ UNCHANGED <<obj, outcome>>
    /\ UNCHANGED <<shared, acq, ncalls, failures, nextObj>>
    /\ UNCHANGED others

\* EagerSingleton.__instance = self
Eager_InitStore(t) ==
    /\ pc[t] = "eager_init_store"
    /\ instance' = [instance EXCEPT ![EG] = obj[t]]
    /\ constructions' = [constructions EXCEPT ![EG] = constructions[EG] + 1]
    /\ obj' = [obj EXCEPT ![t] = None]
    /\ outcome' = [outcome EXCEPT ![t] = "constructed"]
    /\ pc' = [pc EXCEPT ![t] = "idle"]
    /\ UNCHANGED <<locked, returned, first, acq, ncalls, failures, nextObj>>
    /\ UNCHANGED others

Eager_Call(t) ==
    /\ Enter(t, "eager_return")
    /\ UNCHANGED <<shared, obj, failures, nextObj>>
    /\ UNCHANGED others

\* return EagerSingleton.__instance
Eager_Return(t) ==
    /\ pc[t] = "eager_return"
    /\ returned' = [returned EXCEPT ![EG] = returned[EG] \cup {instance[EG]}]
    /\ outcome' = [outcome EXCEPT ![t] = "returned"]
    /\ pc' = [pc EXCEPT ![t] = "idle"]
    /\ UNCHANGED <<instance, locked, constructions, obj, first, acq, ncalls,
                   failures, nextObj>>
    /\ UNCHANGED others

NextEager ==
    \E t \in Threads :
        \/ Eager_Construct(t)
        \/ Eager_InitCheck(t)
        \/ Eager_InitStore(t)
        \/ Eager_Call(t)
        \/ Eager_Return(t)

SpecEager == Init /\ [][NextEager]_vars

\* ---------------------------------------------------------- LazySingleton
LZ == "Lazy"

\* A call that starts while another thread is inside a call overlaps it.
Overlaps(t) == \E u \in Threads \ {t} : pc[u] # "idle"

Lazy_Call(t) ==
    /\ Enter(t, "lazy_check")
    /\ overlapped' = (overlapped \/ Overlaps(t))
    /\ UNCHANGED <<shared, obj, failures, nextObj>>
    /\ UNCHANGED builderState

\* Mutant: no check, every call creates an instance.
Lazy_Check_AlwaysCreates(t) ==
    /\ pc[t] = "lazy_check"
    /\ first' = [first EXCEPT ![t] = instance[LZ]]
    /\ pc' = [pc EXCEPT ![t] = "lazy_new"]
    /\ UNCHANGED <<shared, obj, acq, outcome, ncalls, failures, nextObj, overlapped>>
    /\ UNCHANGED builderState

\* if LazySingleton._instance is None:   (no lock)
Lazy_Check(t) ==
    /\ pc[t] = "lazy_check"
    /\ first' = [first EXCEPT ![t] = instance[LZ]]
    /\ pc' = [pc EXCEPT ![t] =
                IF instance[LZ] = None THEN "lazy_new" ELSE "lazy_return"]
    /\ UNCHANGED <<shared, obj, acq, outcome, ncalls, failures, nextObj, overlapped>>
    /\ UNCHANGED builderState

\* LazySingleton.__new__(LazySingleton)
Lazy_New(t) ==
    /\ pc[t] = "lazy_new"
    /\ Allocate(t, "lazy_store", "lazy_fail")
    /\ UNCHANGED <<shared, first, acq, outcome, ncalls, overlapped>>
    /\ UNCHANGED builderState

\* the MemoryError of __new__ propagates out of getInstance()
Lazy_Fail(t) ==
    /\ pc[t] = "lazy_fail"
    /\ Raise(t, "ConstructionFailed")
    /\ UNCHANGED <<shared, first, acq, ncalls, failures, nextObj, overlapped>>
    /\ UNCHANGED builderState

\* LazySingleton._instance = <the new object>
Lazy_Store(t) ==
    /\ pc[t] = "lazy_store"
    /\ instance' = [instance EXCEPT ![LZ] = obj[t]]
    /\ constructions' = [constructions EXCEPT ![LZ] = constructions[LZ] + 1]
    /\ obj' = [obj EXCEPT ![t] = None]
    /\ pc' = [pc EXCEPT ![t] = "lazy_return"]
    /\ UNCHANGED <<locked, returned, first, acq, outcome, ncalls, failures,
                   nextObj, overlapped>>
    /\ UNCHANGED builderState

\* return LazySingleton._instance
Lazy_Return(t) ==
    /\ pc[t] = "lazy_return"
    /\ returned' = [returned EXCEPT ![LZ] = returned[LZ] \cup {instance[LZ]}]
    /\ outcome' = [outcome EXCEPT ![t] = "returned"]
    /\ pc' = [pc EXCEPT ![t] = "idle"]
    /\ UNCHANGED <<instance, locked, constructions, obj, first, acq, ncalls,
                   failures, nextObj, overlapped>>
    /\ UNCHANGED builderState

\* LazySingleton(): type.__call__ allocates the object, then runs __init__
Lazy_Construct(t) ==
    /\ Enter(t, "lazy_init")
    /\ overlapped' = (overlapped \/ Overlaps(t))
    /\ nextObj' = nextObj + 1
    /\ obj' = [obj EXCEPT ![t] = nextObj + 1]
    /\ UNCHANGED <<shared, failures>>
    /\ UNCHANGED builderState

\* def __init__(self): raise Exception("Use getInstance() to access the singleton")
Lazy_Init(t) ==
    /\ pc[t] = "lazy_init"
    /\ Raise(t, "UseGetInstance")
    /\ UNCHANGED <<shared, first, acq, ncalls, failures, nextObj, overlapped>>
    /\ UNCHANGED builderState

NextLazy ==
    \E t \in Threads :
        \/ Lazy_Call(t)
        \/ Lazy_Construct(t)
        \/ Lazy_Check(t)
        \/ Lazy_New(t)
        \/ Lazy_Fail(t)
        \/ Lazy_Store(t)
        \/ Lazy_Return(t)
        \/ Lazy_Init(t)

SpecLazy == Init /\ [][NextLazy]_vars

\* ------------------------------------------------- Burger, BurgerBuilder
\* The sizes a caller passes to BurgerBuilder(size); "" is the falsy one.
Sizes == {"", "Medium", "Large"}

\* BurgerBuilder.__init__(size).  Builders share nothing (each has its own
\* list), so the model follows the first builder that is constructed.
BurgerBuilder_init(size) ==
    /\ builders = <<>>
    /\ IF size = ""
         THEN /\ raised' = "ValueError"
              /\ UNCHANGED <<lists, builders, added>>
         ELSE /\ lists' = Append(lists, <<>>)
              /\ builders' = Append(builders,
                                [size |-> size, ingredients |-> Len(lists) + 1])
              /\ added' = Append(added, <<>>)
              /\ raised' = "none"
    /\ UNCHANGED <<burgers, built>>
    /\ UNCHANGED <<threadState, orderState>>

\* self.ingredients.append(name); return self
AddIngredient(b, name) ==
    /\ Len(added[b]) < MaxAdds
    /\ lists' = [lists EXCEPT ![builders[b].ingredients] = Append(@, name)]
    /\ added' = [added EXCEPT ![b] = Append(@, name)]
    /\ UNCHANGED <<builders, burgers, built, raised>>
    /\ UNCHANGED <<threadState, orderState>>

add_cheese(b) == AddIngredient(b, "Cheese")

add_lettuce(b) == AddIngredient(b, "Lettuce")

add_tomato(b) == AddIngredient(b, "Tomato")

add_pepperoni(b) == AddIngredient(b, "Pepperoni")

add_extra_patty(b) == AddIngredient(b, "Extra Patty")

\* Mutant: the burger keeps the builder's list itself instead of a copy.
Burger_init_NoCopy(b) ==
    /\ burgers' = Append(burgers, [size |-> builders[b].size,
                                   ingredients |-> builders[b].ingredients])
    /\ UNCHANGED lists

\* Burger.__init__(builder): self.size = builder.size;
\* self.ingredients = builder.ingredients.copy()
Burger_init(b) ==
    /\ lists' = Append(lists, lists[builders[b].ingredients])
    /\ burgers' = Append(burgers, [size |-> builders[b].size,
                                   ingredients |-> Len(lists) + 1])

\* BurgerBuilder.build(): return Burger(self)
build(b) ==
    /\ Len(burgers) < MaxBurgers
    /\ Burger_init(b)
    /\ built' = Append(built, [builder |-> b, size |-> builders[b].size,
                               ingredients |-> added[b]])
    /\ UNCHANGED <<builders, added, raised>>
    /\ UNCHANGED <<threadState, orderState>>

NextBurger ==
    \/ \E size \in Sizes : BurgerBuilder_init(size)
    \/ \E b \in DOMAIN builders :
          \/ add_cheese(b)
          \/ add_lettuce(b)
          \/ add_tomato(b)
          \/ add_pepperoni(b)
          \/ add_extra_patty(b)
          \/ build(b)

SpecBurger == Init /\ [][NextBurger]_vars

\* ---------------------------------------------------- Order, OrderBuilder
\* The arguments a caller passes.
OrderIds == {"123", "124"}
Restaurants == {"datchu"}
Addresses == {"chennai"}
Coupons == {"001"}
Instructions == {"no onions"}

\* OrderBuilder.__init__(order_id, restaurant_name).  Builders share nothing,
\* so the model follows the first builder that is constructed.
OrderBuilder_init(order_id, restaurant_name) ==
    /\ obuilders = <<>>
    /\ lists' = Append(lists, <<>>)
    /\ obuilders' = Append(obuilders,
                      [order_id |-> order_id, restaurant_name |-> restaurant_name,
                       additioal |-> Len(lists) + 1])
    /\ UNCHANGED <<orders, ordered>>
    /\ UNCHANGED <<threadState, burgerState>>

\* self.additioal.append(value); return self
AppendAdditional(b, value) ==
    /\ Len(lists[obuilders[b].additioal]) < MaxAppends
    /\ lists' = [lists EXCEPT ![obuilders[b].additioal] = Append(@, value)]
    /\ UNCHANGED <<obuilders, orders, ordered>>
    /\ UNCHANGED <<threadState, burgerState>>

is_delivery_address(b, address) == AppendAdditional(b, address)

is_coupon(b, coupon) == AppendAdditional(b, coupon)

is_instructions(b, instructions) == AppendAdditional(b, instructions)

\* builder.<name> where <name> is a method: the method bound to the builder
BoundMethod(b, name) == <<"bound method", name, b>>

\* Order.__init__(order): the optional fields read the builder's methods of
\* those names, and addon is the builder's list itself.  (The print of
\* order_id and restaurant_name changes no state.)
Order_init(b) ==
    orders' = Append(orders,
                [order_id |-> obuilders[b].order_id,
                 restaurant_name |-> obuilders[b].restaurant_name,
                 delivery_address |-> BoundMethod(b, "is_delivery_address"),
                 coupon_code |-> BoundMethod(b, "is_coupon"),
                 instructions |-> BoundMethod(b, "is_instructions"),
                 addon |-> obuilders[b].additioal])

\* What a reader of order i's fields sees: addon is read through the list.
OrderFields(o) ==
    [order_id |-> o.order_id,
     restaurant_name |-> o.restaurant_name,
     delivery_address |-> o.delivery_address,
     coupon_code |-> o.coupon_code,
     instructions |-> o.instructions,
     addon |-> lists[o.addon]]

\* OrderBuilder.build_order(): return Order(self)
build_order(b) ==
    /\ Len(orders) < MaxOrders
    /\ Order_init(b)
    /\ ordered' = Append(ordered, OrderFields(orders'[Len(orders')]))
    /\ UNCHANGED <<lists, obuilders>>
    /\ UNCHANGED <<threadState, burgerState>>

NextOrder ==
    \/ \E order_id \in OrderIds, restaurant_name \in Restaurants :
          OrderBuilder_init(order_id, restaurant_name)
    \/ \E b \in DOMAIN obuilders :
          \/ \E address \in Addresses : is_delivery_address(b, address)
          \/ \E coupon \in Coupons : is_coupon(b, coupon)
          \/ \E instructions \in Instructions : is_instructions(b, instructions)
          \/ build_order(b)

SpecOrder == Init /\ [][NextOrder]_vars

\* ================================================================ claims

\* C1: every DoubleCheckedSingleton.getInstance() call, concurrent or one after
\* another, returns the one object held in _instance: never None, never a
\* second object.
C1_AllCallsReturnSameObject ==
    /\ None \notin returned[DC]
    /\ returned[DC] \subseteq {instance[DC]}
    /\ Cardinality(returned[DC]) <= 1

\* C1 witness: every thread entered while _instance was None, went through the
\* lock, and has returned.
C1_Witness ==
    \A t \in Threads :
        pc[t] = "idle" /\ outcome[t] = "returned" /\ first[t] = None /\ acq[t] = 1

\* C2: the guarded assignment to _instance runs at most once, and exactly once
\* as soon as any getInstance() call has returned.
C2_ConstructedExactlyOnce ==
    /\ constructions[DC] <= 1
    /\ (returned[DC] # {} => constructions[DC] = 1)

\* C2 witness: all calls of the run are over, some returned, one construction.
C2_Witness ==
    /\ ncalls = MaxCalls
    /\ \A t \in Threads : pc[t] = "idle"
    /\ \E t \in Threads : outcome[t] = "returned"
    /\ constructions[DC] = 1

\* C3: once _instance holds an object, no step (of getInstance() or of a direct
\* constructor call) assigns another object or None to it.
C3_InstanceNeverChangesOnceSet ==
    [][instance[DC] # None => instance'[DC] = instance[DC]]_vars

\* C3 witness: _instance is set while one thread is still between its second
\* check and its release and another is inside a direct constructor call.
C3_Witness ==
    /\ instance[DC] # None
    /\ \E t, u \in Threads : pc[t] = "dcl_init" /\ pc[u] = "dcl_check2"

\* C4: a direct DoubleCheckedSingleton() call ends by raising
\* Exception("Use getInstance()") and changes neither _instance nor _lock.
C4_DirectConstructionRaises ==
    [][\A t \in Threads :
          (pc[t] = "dcl_init" /\ pc'[t] # "dcl_init") =>
              /\ pc'[t] = "idle"
              /\ outcome'[t] = "UseGetInstance"
              /\ instance'[DC] = instance[DC]
              /\ locked'[DC] = locked[DC]]_vars

\* C4 witness: a direct construction has raised while the instance exists and
\* another thread still holds the lock.
C4_Witness ==
    \E t, u \in Threads :
        /\ pc[t] = "idle" /\ outcome[t] = "UseGetInstance"
        /\ instance[DC] # None
        /\ locked[DC] /\ pc[u] = "dcl_release"

\* C5: when the construction inside getInstance() fails, the failing call ends
\* with the failure raised to its caller, _instance is still None and the lock
\* is free again (so a later call can take it and construct).
C5_FailedConstructionIsRetryable ==
    [][\A t \in Threads :
          (pc[t] = "dcl_unwind" /\ pc'[t] # "dcl_unwind") =>
              /\ pc'[t] = "idle"
              /\ outcome'[t] = "ConstructionFailed"
              /\ instance[DC] = None
              /\ instance'[DC] = None
              /\ ~locked'[DC]]_vars

\* C5 witness: a construction failed, the failing caller saw the failure, and a
\* later call constructed the instance and returned it.
C5_Witness ==
    /\ failures > 0
    /\ \E t \in Threads : pc[t] = "idle" /\ outcome[t] = "ConstructionFailed"
    /\ \E u \in Threads : pc[u] = "idle" /\ outcome[u] = "returned" /\ acq[u] = 1
    /\ constructions[DC] = 1
    /\ returned[DC] = {instance[DC]}

\* C6: at most one thread is inside the with block, the lock is held exactly
\* then, and _instance changes only from None and only in a step of the thread
\* inside the block; no other step writes it.
C6_OnlyLockHolderWrites ==
    /\ [](/\ Cardinality({t \in Threads : DCL_InWith(t)}) <= 1
          /\ (locked[DC] <=> \E t \in Threads : DCL_InWith(t)))
    /\ [][instance'[DC] # instance[DC] =>
             /\ instance[DC] = None
             /\ locked[DC]
             /\ \E t \in Threads :
                   /\ DCL_InWith(t)
                   /\ pc'[t] # pc[t]
                   /\ \A u \in Threads \ {t} : pc'[u] = pc[u]]_vars

\* C6 witness: the lock holder has just stored the instance while another
\* thread, which read None at its first check, waits for the lock.
C6_Witness ==
    \E t, u \in Threads :
        /\ pc[t] = "dcl_release" /\ instance[DC] # None /\ constructions[DC] = 1
        /\ pc[u] = "dcl_acquire"

\* C7: a call whose first check found the instance returns it without taking
\* the lock, and its return step can be taken whatever the lock's state; every
\* step of a call other than the lock acquisition can always be taken.
C7_FastPathNeverBlocks ==
    \A t \in Threads :
        /\ (pc[t] = "dcl_return" /\ first[t] # None) =>
              /\ acq[t] = 0
              /\ instance[DC] = first[t]
              /\ ENABLED DCL_Return(t)
        /\ (pc[t] \notin {"idle", "dcl_acquire"}) => ENABLED DCL_Step(t)

\* C7 witness: a fast-path call is about to return while another thread is
\* inside the with block, holding the lock.
C7_Witness ==
    \E t, u \in Threads :
        /\ pc[t] = "dcl_return" /\ first[t] # None
        /\ locked[DC] /\ DCL_InWith(u)

\* C8: under fair scheduling every call in progress ends, and the lock is held
\* only while some call is inside the with block (so it is free whenever no
\* call is in progress, also after a failed construction).
C8_EveryCallEnds ==
    /\ [](locked[DC] => \E t \in Threads : DCL_InWith(t))
    /\ \A t \in Threads : (pc[t] # "idle") ~> (pc[t] = "idle")

\* C8 witness: a thread waits for the lock while its holder is unwinding from a
\* failed construction.
C8_Witness ==
    \E t, u \in Threads : pc[t] = "dcl_acquire" /\ pc[u] = "dcl_unwind"

\* C9: BillPughSingleton.getInstance() called concurrently creates only one
\* object and every call returns that object.
C9_BillPughThreadSafe ==
    /\ constructions[BP] <= 1
    /\ Cardinality(returned[BP]) <= 1

\* C10: SynchronizedSingleton.getInstance() takes the lock on every call, one
\* thread at a time is inside the with block, one instance is created and every
\* call that returns, returns it.
C10_SynchronizedSingleInstance ==
    /\ \A t \in Threads :
          (pc[t] = "sync_return" \/ (pc[t] = "idle" /\ outcome[t] = "returned"))
              => acq[t] = 1
    /\ Cardinality({t \in Threads : Sync_InWith(t)}) <= 1
    /\ constructions[SY] <= 1
    /\ (returned[SY] # {} => constructions[SY] = 1)
    /\ None \notin returned[SY]
    /\ returned[SY] \subseteq {instance[SY]}

\* C10 witness: one call created the instance and returned; another call found
\* it present under the lock, took the lock all the same, and returned.
C10_Witness ==
    \E t, u \in Threads :
        /\ pc[t] = "idle" /\ outcome[t] = "returned" /\ first[t] = None
        /\ pc[u] = "idle" /\ outcome[u] = "returned" /\ first[u] # None /\ acq[u] = 1
        /\ constructions[SY] = 1

\* C11: under any interleaving of EagerSingleton() calls at most one call gets
\* past the constructor's check and stores itself as the instance.
C11_EagerConstructorAdmitsOne ==
    constructions[EG] <= 1

\* C12: every EagerSingleton.getInstance() call returns one and the same
\* object, never None.
C12_EagerGetInstanceSameObject ==
    /\ None \notin returned[EG]
    /\ Cardinality(returned[EG]) <= 1

\* C13: as long as no two LazySingleton calls have overlapped, at most one
\* instance has been created, it was created by the time the first call
\* returned, and every call returned that instance.  (That overlapping calls
\* can return two different instances is what the witness reaches.)
C13_LazySequentialSingleInstance ==
    ~overlapped =>
        /\ constructions[LZ] <= 1
        /\ (returned[LZ] # {} => constructions[LZ] = 1)
        /\ None \notin returned[LZ]
        /\ returned[LZ] \subseteq {instance[LZ]}

\* C13 witness: two calls that both read None at the check have overlapped,
\* each created an object, and two different instances have been returned.
C13_Witness ==
    /\ overlapped
    /\ Cardinality(returned[LZ]) = 2
    /\ constructions[LZ] = 2
    /\ \E t, u \in Threads :
          /\ t # u
          /\ pc[t] = "idle" /\ outcome[t] = "returned" /\ first[t] = None
          /\ pc[u] = "idle" /\ outcome[u] = "returned" /\ first[u] = None

\* C14: every Burger has the size its builder had and exactly the ingredients
\* added to that builder before build(), in call order, whatever add_* and
\* build() calls were made on the builder afterwards.
C14_BurgerFixedOnceBuilt ==
    /\ Len(built) = Len(burgers)
    /\ \A i \in DOMAIN burgers :
          /\ burgers[i].size = built[i].size
          /\ lists[burgers[i].ingredients] = built[i].ingredients
          /\ burgers[i].ingredients # builders[built[i].builder].ingredients

\* C14 witness: a burger was built with one ingredient, then the same builder
\* got another ingredient and built a second burger.
C14_Witness ==
    /\ Len(burgers) = 2
    /\ built[1].builder = built[2].builder
    /\ Len(lists[burgers[1].ingredients]) = 1
    /\ Len(lists[burgers[2].ingredients]) = 2

\* C15: every field of an Order (order_id, restaurant_name, delivery_address,
\* coupon_code, instructions, addon) still has the value it had when
\* build_order() returned, whatever is_* calls were made on the builder since.
C15_OrderImmutableAfterBuild ==
    /\ Len(ordered) = Len(orders)
    /\ \A i \in DOMAIN orders : OrderFields(orders[i]) = ordered[i]

====
